---- MODULE Spec2Model ----
(***************************************************************************)
(* Model of network_core.py: the router topology, the congestion model,   *)
(* the two path searches and the state snapshot of class NetworkCore.     *)
(*                                                                         *)
(* Python floats are modelled as binary floating-point numbers with a     *)
(* Prec-bit significand, rounded to nearest, ties to even.  A float is    *)
(* held as the integer numerator of value * 2^FracBits.  For congestion   *)
(* multipliers 0.5, 1.0 and 2.0 and small integer base weights every      *)
(* product and sum is exactly representable, both here and in binary64,   *)
(* so the model computes the very numbers the program computes.           *)
(***************************************************************************)
EXTENDS Integers, Sequences, FiniteSets, TLC

\* ---------------------------------------------------------------- bounds
Prec == 10            \* significand bits of the modelled float
MaxRouters == 3       \* largest network the interface specification builds
MaxWeight == 1        \* base weights passed to add_connection: 1..MaxWeight
MaxAddCalls == 1      \* add_connection calls made by a caller per network

\* ------------------------------------------------------ program constants
NumPositions == 6     \* len(positions)
Inf == 1000000000     \* float('inf')
None == -1            \* previous[router_id] = None

FracBits == Prec + 1
Unit == 2 ^ FracBits  \* the float 1.0

\* ------------------------------------------------------- float arithmetic
\* how many low bits of m do not fit a Prec-bit significand
RECURSIVE Excess(_)
Excess(m) ==
  IF m < 2 ^ Prec THEN 0 ELSE 1 + Excess(m \div 2)

\* m rounded to Prec significant bits, to nearest, ties to even
RoundSig(m) ==
  LET s == Excess(m)
  IN  IF s = 0 THEN m
      ELSE LET q == m \div (2 ^ s)
               r == m % (2 ^ s)
               up == (2 * r > 2 ^ s) \/ (2 * r = 2 ^ s /\ q % 2 = 1)
           IN  (IF up THEN q + 1 ELSE q) * (2 ^ s)

\* float * float
FMul(a, b) ==
  RoundSig(a * b) \div Unit

\* float + float
FAdd(a, b) ==
  RoundSig(a + b)

\* int -> float
ToFloat(i) ==
  i * Unit

\* ------------------------------------------------------------ Python dict
\* a dict is the sequence of its <<key, value>> items in insertion order
DictKeys(d) ==
  {d[i][1] : i \in 1..Len(d)}

DictGet(d, k) ==
  d[CHOOSE i \in 1..Len(d) : d[i][1] = k][2]

DictSet(d, k, v) ==
  IF k \in DictKeys(d)
  THEN [i \in 1..Len(d) |-> IF d[i][1] = k THEN <<k, v>> ELSE d[i]]
  ELSE Append(d, <<k, v>>)

\* ------------------------------------------------------------------ state
VARIABLES
  routers,     \* self.routers: id -> Router(congestion, connections, x, y)
  algorithm,   \* self.algorithm
  addCalls,    \* add_connection calls made on this network by its caller
  result       \* what the last call returned

vars == <<routers, algorithm, addCalls, result>>

\* ------------------------------------------------------------ input sets
\* num_routers: every size up to MaxRouters, and one past the table
RouterCounts == (0..MaxRouters) \cup {NumPositions + 1}
\* router ids passed in: the first router, a later one, an unknown one
SomeIds == {0, 2, NumPositions}
Weights == 1..MaxWeight
AlgoNames == {"dijkstra", "astar", "bfs"}
\* random.uniform(0.5, 2.0): the two ends of the range
CongLevels == {Unit \div 2, 2 * Unit}
\* two draws in between: 1.0546875 and 1.69140625
RoundingLevels == {(540 * Unit) \div 512, (866 * Unit) \div 512}

\* --------------------------------------------------------- setup_network
positions ==
  <<  <<0, 0>>, <<1, 0>>, <<1, 1>>, <<2, 1>>, <<2, 2>>, <<3, 2>>  >>

default_connections ==
  <<  <<0, 1, 1>>, <<0, 2, 2>>,
      <<1, 2, 1>>, <<1, 3, 3>>,
      <<2, 3, 2>>, <<2, 4, 2>>,
      <<3, 4, 1>>, <<3, 5, 2>>,
      <<4, 5, 1>>  >>

Router(i, px, py) ==
  [id |-> i, congestion |-> Unit, connections |-> <<>>, x |-> px, y |-> py]

\* the body of add_connection applied to a router table R
AddConnection(R, router1_id, router2_id, base_weight) ==
  IF router1_id \in DOMAIN R /\ router2_id \in DOMAIN R
  THEN LET R1 == [R EXCEPT ![router1_id].connections =
                                DictSet(@, router2_id, ToFloat(base_weight))]
       IN  [R1 EXCEPT ![router2_id].connections =
                                DictSet(@, router1_id, ToFloat(base_weight))]
  ELSE R

RECURSIVE WireFrom(_, _)
WireFrom(R, k) ==
  IF k > Len(default_connections) THEN R
  ELSE WireFrom(AddConnection(R, default_connections[k][1],
                                 default_connections[k][2],
                                 default_connections[k][3]), k + 1)

\* the router table setup_network(num_routers) leaves behind
setup_network(num_routers) ==
  WireFrom([i \in 0..(num_routers - 1) |->
              Router(i, positions[i + 1][1], positions[i + 1][2])], 1)

\* ------------------------------------------------------ effective weight
\* slip: the two congestion multipliers are added, not multiplied
get_effective_weight_added(src_id, dst_id) ==
  IF src_id \notin DOMAIN routers \/ dst_id \notin DOMAIN routers THEN Inf
  ELSE IF dst_id \notin DictKeys(routers[src_id].connections) THEN Inf
  ELSE FMul(DictGet(routers[src_id].connections, dst_id),
            FAdd(routers[src_id].congestion, routers[dst_id].congestion))

get_effective_weight(src_id, dst_id) ==
  IF src_id \notin DOMAIN routers \/ dst_id \notin DOMAIN routers THEN Inf
  ELSE IF dst_id \notin DictKeys(routers[src_id].connections) THEN Inf
  ELSE FMul(FMul(DictGet(routers[src_id].connections, dst_id),
                 routers[src_id].congestion),
            routers[dst_id].congestion)

Abs(i) ==
  IF i < 0 THEN -i ELSE i

heuristic(current, goal) ==
  Abs(routers[current].x - routers[goal].x)
    + Abs(routers[current].y - routers[goal].y)

\* ------------------------------------------------------------- the heap
\* heapq over (priority, router) tuples: heappop returns the least tuple
\* slip: tuples pushed as (router, priority), so the least router id pops
HeapMinByRouter(heap) ==
  CHOOSE t \in heap :
    \A u \in heap : t[2] < u[2] \/ (t[2] = u[2] /\ t[1] <= u[1])

HeapMin(heap) ==
  CHOOSE t \in heap :
    \A u \in heap : t[1] < u[1] \/ (t[1] = u[1] /\ t[2] <= u[2])

\* walk previous[] back from current, then reverse
\* slip: path.reverse() left out
RECURSIVE ReconstructPathUnreversed(_, _)
ReconstructPathUnreversed(previous, current) ==
  IF current = None THEN <<>>
  ELSE <<current>> \o ReconstructPathUnreversed(previous, previous[current])

RECURSIVE ReconstructPath(_, _)
ReconstructPath(previous, current) ==
  IF current = None THEN <<>>
  ELSE Append(ReconstructPath(previous, previous[current]), current)

\* the absent path (Python None); the searches never return an empty list
NoPath == <<>>

\* ------------------------------------------------------------- dijkstra
\* The while loop of find_shortest_path.  DijkstraLoop is the loop test,
\* DijkstraPop the heappop and the two tests on the popped router,
\* DijkstraRelax the for loop over the neighbours of the popped router.
RECURSIVE DijkstraLoop(_, _, _, _, _)

\* distance: neighbor -> current_distance + weight, for unvisited neighbours
\* better: the neighbours with distance < distances[neighbor]
DijkstraRelax(distances, previous, pq, visited, end, current, distance, better) ==
  DijkstraLoop(
    [r \in DOMAIN distances |->
       IF r \in better THEN distance[r] ELSE distances[r]],
    [r \in DOMAIN previous |->
       IF r \in better THEN current ELSE previous[r]],
    pq \cup {<<distance[nb], nb>> : nb \in better},
    visited, end)

DijkstraScan(distances, previous, pq, visited, end, current, distance) ==
  DijkstraRelax(distances, previous, pq, visited, end, current, distance,
                {nb \in DOMAIN distance : distance[nb] < distances[nb]})

DijkstraPop(distances, previous, pq, visited, end, current_distance, current) ==
  IF current \in visited
  THEN DijkstraLoop(distances, previous, pq, visited, end)
  ELSE IF current = end
  THEN [distances |-> distances, previous |-> previous]
  ELSE DijkstraScan(distances, previous, pq, visited \cup {current}, end,
         current,
         [nb \in DictKeys(routers[current].connections)
                   \ (visited \cup {current}) |->
            FAdd(current_distance, get_effective_weight(current, nb))])

DijkstraTop(distances, previous, pq, visited, end, top) ==
  DijkstraPop(distances, previous, pq \ {top}, visited, end, top[1], top[2])

DijkstraLoop(distances, previous, pq, visited, end) ==
  IF pq = {} THEN [distances |-> distances, previous |-> previous]
  ELSE DijkstraTop(distances, previous, pq, visited, end, HeapMin(pq))

\* slip: distances[start] = 0 left out
DijkstraFinalNoStart(start, end) ==
  DijkstraLoop([r \in DOMAIN routers |-> Inf],
               [r \in DOMAIN routers |-> None],
               {<<0, start>>}, {}, end)

\* distances and previous when the while loop of find_shortest_path ends
DijkstraFinal(start, end) ==
  DijkstraLoop([r \in DOMAIN routers |-> IF r = start THEN 0 ELSE Inf],
               [r \in DOMAIN routers |-> None],
               {<<0, start>>}, {}, end)

\* the lines of find_shortest_path after the loop
DijkstraReturn(fin, end) ==
  IF fin.distances[end] = Inf THEN NoPath
  ELSE ReconstructPath(fin.previous, end)

find_shortest_path(start, end) ==
  IF start \notin DOMAIN routers \/ end \notin DOMAIN routers THEN NoPath
  ELSE DijkstraReturn(DijkstraFinal(start, end), end)

\* ------------------------------------------------------------------- A*
\* The while loop of find_path_astar, cut up as the loop of
\* find_shortest_path is.
RECURSIVE AstarLoop(_, _, _, _, _, _)

\* tentative_g: neighbor -> g_score[current] + weight, for open neighbours
\* f: neighbor -> tentative_g + heuristic, for the neighbours that improve
AstarRelax(g_score, f_score, previous, open_set, closed_set, end, current, tentative_g, f) ==
  AstarLoop(
    [r \in DOMAIN g_score |->
       IF r \in DOMAIN f THEN tentative_g[r] ELSE g_score[r]],
    [r \in DOMAIN f_score |->
       IF r \in DOMAIN f THEN f[r] ELSE f_score[r]],
    [r \in DOMAIN previous |->
       IF r \in DOMAIN f THEN current ELSE previous[r]],
    open_set \cup {<<f[nb], nb>> : nb \in DOMAIN f},
    closed_set, end)

AstarScan(g_score, f_score, previous, open_set, closed_set, end, current, tentative_g) ==
  AstarRelax(g_score, f_score, previous, open_set, closed_set, end, current,
    tentative_g,
    [nb \in {n \in DOMAIN tentative_g : tentative_g[n] < g_score[n]} |->
       FAdd(tentative_g[nb], ToFloat(heuristic(nb, end)))])

AstarPop(g_score, f_score, previous, open_set, closed_set, end, current) ==
  IF current = end
  THEN [g_score |-> g_score, previous |-> previous]
  ELSE IF current \in closed_set
  THEN AstarLoop(g_score, f_score, previous, open_set, closed_set, end)
  ELSE AstarScan(g_score, f_score, previous, open_set,
         closed_set \cup {current}, end, current,
         [nb \in DictKeys(routers[current].connections)
                   \ (closed_set \cup {current}) |->
            FAdd(g_score[current], get_effective_weight(current, nb))])

AstarTop(g_score, f_score, previous, open_set, closed_set, end, top) ==
  AstarPop(g_score, f_score, previous, open_set \ {top}, closed_set, end,
           top[2])

AstarLoop(g_score, f_score, previous, open_set, closed_set, end) ==
  IF open_set = {}
  THEN [g_score |-> g_score, previous |-> previous]
  ELSE AstarTop(g_score, f_score, previous, open_set, closed_set, end,
                HeapMin(open_set))

\* g_score and previous when the while loop of find_path_astar ends
AstarFrom(start, end, h0) ==
  AstarLoop([r \in DOMAIN routers |-> IF r = start THEN 0 ELSE Inf],
            [r \in DOMAIN routers |-> IF r = start THEN h0 ELSE Inf],
            [r \in DOMAIN routers |-> None],
            {<<h0, start>>}, {}, end)

AstarFinal(start, end) ==
  AstarFrom(start, end, ToFloat(heuristic(start, end)))

\* the lines of find_path_astar after the loop
AstarReturn(fin, end) ==
  IF fin.g_score[end] = Inf THEN NoPath
  ELSE ReconstructPath(fin.previous, end)

find_path_astar(start, end) ==
  IF start \notin DOMAIN routers \/ end \notin DOMAIN routers THEN NoPath
  ELSE AstarReturn(AstarFinal(start, end), end)

\* slip: every name but "dijkstra" selects the heuristic search
FindPathResultStrict(start, end) ==
  IF algorithm # "dijkstra"
  THEN [ran |-> "find_path_astar", path |-> find_path_astar(start, end)]
  ELSE [ran |-> "find_shortest_path", path |-> find_shortest_path(start, end)]

\* the branch find_path takes and the path it returns
FindPathResult(start, end) ==
  IF algorithm = "astar"
  THEN [ran |-> "find_path_astar", path |-> find_path_astar(start, end)]
  ELSE [ran |-> "find_shortest_path", path |-> find_shortest_path(start, end)]

\* --------------------------------------------------------------- snapshot
\* the items router src_id adds to state['connections'], from item k on
RECURSIVE EdgesOfRouter(_, _, _)
EdgesOfRouter(list, src_id, k) ==
  LET items == routers[src_id].connections
  IN  IF k > Len(items) THEN list
      ELSE
        LET dst_id == items[k][1]
            base_weight == items[k][2]
            seen == \E j \in 1..Len(list) : list[j] = <<dst_id, src_id>>
        IN  EdgesOfRouter(
              IF ~seen
              THEN Append(list, <<src_id, dst_id, base_weight,
                                  get_effective_weight(src_id, dst_id)>>)
              ELSE list,
              src_id, k + 1)

\* routers are visited in insertion order, which is 0, 1, ..., n-1
RECURSIVE EdgesFrom(_, _)
EdgesFrom(list, src_id) ==
  IF src_id \notin DOMAIN routers THEN list
  ELSE EdgesFrom(EdgesOfRouter(list, src_id, 1), src_id + 1)

NetworkState ==
  [routers |-> [r \in DOMAIN routers |->
                  [congestion |-> routers[r].congestion,
                   x |-> routers[r].x, y |-> routers[r].y]],
   connections |-> EdgesFrom(<<>>, 0),
   algorithm |-> algorithm]

\* ---------------------------------------------------------------- actions
Constructed(n) ==
  /\ routers = setup_network(n)
  /\ algorithm = "dijkstra"
  /\ addCalls = 0
  /\ result = [op |-> "construct", n |-> n, error |-> "none"]

Init ==
  \E n \in 0..MaxRouters : Constructed(n)

\* NetworkCore(num_routers): positions[i] raises IndexError past the table,
\* the constructor then returns no object and the caller keeps the old one
Construct(n) ==
  IF n <= Len(positions)
  THEN /\ routers' = setup_network(n)
       /\ algorithm' = "dijkstra"
       /\ addCalls' = 0
       /\ result' = [op |-> "construct", n |-> n, error |-> "none"]
  ELSE /\ result' = [op |-> "construct", n |-> n, error |-> "IndexError"]
       /\ UNCHANGED <<routers, algorithm, addCalls>>

set_algorithm(algo) ==
  /\ algorithm' = algo
  /\ result' = [op |-> "set_algorithm", algo |-> algo]
  /\ UNCHANGED <<routers, addCalls>>

add_connection(router1_id, router2_id, base_weight) ==
  /\ addCalls < MaxAddCalls
  /\ addCalls' = addCalls + 1
  /\ routers' = AddConnection(routers, router1_id, router2_id, base_weight)
  /\ result' = [op |-> "add_connection", router1_id |-> router1_id,
                router2_id |-> router2_id]
  /\ UNCHANGED algorithm

update_network_conditions(levels) ==
  /\ \E c \in [DOMAIN routers -> levels] :
       routers' = [r \in DOMAIN routers |->
                     [routers[r] EXCEPT !.congestion = c[r]]]
  /\ result' = [op |-> "update_network_conditions"]
  /\ UNCHANGED <<algorithm, addCalls>>

\* comp_time, the wall-clock reading, is left out of the returned pair
Returned(start, end, found) ==
  [op |-> "find_path", start |-> start, end |-> end,
   ran |-> found.ran, path |-> found.path]

find_path(start, end) ==
  /\ result' = Returned(start, end, FindPathResult(start, end))
  /\ UNCHANGED <<routers, algorithm, addCalls>>

get_network_state ==
  /\ result' = [op |-> "get_network_state", state |-> NetworkState]
  /\ UNCHANGED <<routers, algorithm, addCalls>>

\* the whole interface, on networks of up to MaxRouters routers
Next ==
  \/ \E n \in RouterCounts : Construct(n)
  \/ \E algo \in AlgoNames : set_algorithm(algo)
  \/ \E a \in SomeIds, b \in SomeIds, w \in Weights : add_connection(a, b, w)
  \/ update_network_conditions(CongLevels)
  \/ \E s \in SomeIds, e \in SomeIds : find_path(s, e)
  \/ get_network_state

Spec == Init /\ [][Next]_vars

\* path queries between all routers of the 6-router reference network
InitSearch ==
  Constructed(NumPositions)

\* from every router to either end of the network
NextSearch ==
  \/ \E algo \in {"dijkstra", "astar"} : set_algorithm(algo)
  \/ update_network_conditions(CongLevels)
  \/ \E s \in DOMAIN routers, e \in {0, NumPositions - 1} : find_path(s, e)

SpecSearch == InitSearch /\ [][NextSearch]_vars

\* topology, congestion and snapshot on networks of every size, with
\* congestion draws whose products do not fit the significand
InitRounding ==
  \E n \in 0..NumPositions : Constructed(n)

NextRounding ==
  \/ \E n \in 0..(NumPositions + 1) : Construct(n)
  \/ \E a \in SomeIds, b \in SomeIds, w \in Weights : add_connection(a, b, w)
  \/ update_network_conditions(RoundingLevels)
  \/ get_network_state

SpecRounding == InitRounding /\ [][NextRounding]_vars

\* ============================================================ properties
Ids == DOMAIN routers

Neighbours(r) == DictKeys(routers[r].connections)

IsQuery == result.op = "find_path"

\* total effective weight along a path, summed hop by hop from the start
AddHop(sofar, w) ==
  IF w = Inf \/ sofar = Inf THEN Inf ELSE FAdd(sofar, w)

RECURSIVE WeightUpTo(_, _)
WeightUpTo(path, k) ==
  IF k <= 1 THEN 0
  ELSE AddHop(WeightUpTo(path, k - 1),
              get_effective_weight(path[k - 1], path[k]))

PathWeight(path) ==
  IF path = NoPath THEN Inf ELSE WeightUpTo(path, Len(path))

Least(S) ==
  CHOOSE m \in S : \A o \in S : m <= o

\* a cost table is a set of <<router, cost>> pairs, one per router
CostIn(D, r) ==
  (CHOOSE p \in D : p[1] = r)[2]

\* one more link: the least cost of reaching each router
Extend(D) ==
  {<<r, Least({CostIn(D, r)} \cup
              {FAdd(CostIn(D, u), get_effective_weight(u, r)) :
                 u \in {v \in Ids : CostIn(D, v) < Inf /\ r \in Neighbours(v)}})>> :
     r \in Ids}

\* least total effective weight of a walk of at most k links, per router
RECURSIVE WalkCost(_, _)
WalkCost(start, k) ==
  IF k = 0 THEN {<<r, IF r = start THEN 0 ELSE Inf>> : r \in Ids}
  ELSE UNION {Extend(D) : D \in {WalkCost(start, k - 1)}}

\* the minimum total effective weight from start to end, Inf if none
MinCost(start, end) ==
  CostIn(WalkCost(start, Cardinality(Ids)), end)

Reachable(start, end) ==
  MinCost(start, end) < Inf

IsWalk(path, start, end) ==
  /\ Len(path) >= 1
  /\ path[1] = start
  /\ path[Len(path)] = end
  /\ \A i \in 1..(Len(path) - 1) :
       path[i] \in Ids /\ path[i + 1] \in Neighbours(path[i])

\* the undirected links of the topology
Links ==
  {{p[1], p[2]} : p \in {q \in Ids \X Ids : q[2] \in Neighbours(q[1])}}

IsReference ==
  /\ Ids = 0..(NumPositions - 1)
  /\ \A u \in Ids, v \in Ids :
       LET ks == {k \in 1..Len(default_connections) :
                    {u, v} = {default_connections[k][1],
                              default_connections[k][2]}}
       IN  IF ks = {} THEN v \notin Neighbours(u)
           ELSE /\ v \in Neighbours(u)
                /\ \A k \in ks :
                     DictGet(routers[u].connections, v)
                       = ToFloat(default_connections[k][3])

\* C1: the edge list of a snapshot has one entry per undirected link: its
\* length is the number of links and no unordered pair appears twice.
C1_OneEntryPerLink ==
  result.op = "get_network_state" =>
    LET edges == result.state.connections
    IN  /\ Len(edges) = Cardinality(Links)
        /\ \A i \in 1..Len(edges), j \in 1..Len(edges) :
             i # j => {edges[i][1], edges[i][2]} # {edges[j][1], edges[j][2]}

\* C2 as stated: on the reference topology with every congestion 1.0 and
\* dijkstra selected, FindPath(0,5) returns [0,2,3,5] or [0,2,4,5], the two
\* cost the same, and the returned path weighs exactly 6.0.
ReferenceQuery ==
  /\ IsQuery /\ result.start = 0 /\ result.end = 5
  /\ algorithm = "dijkstra"
  /\ IsReference
  /\ \A r \in Ids : routers[r].congestion = Unit

C2_ReferencePathWeighsSix ==
  ReferenceQuery =>
    /\ result.path \in {<<0, 2, 3, 5>>, <<0, 2, 4, 5>>}
    /\ PathWeight(<<0, 2, 3, 5>>) = PathWeight(<<0, 2, 4, 5>>)
    /\ PathWeight(result.path) = ToFloat(6)

\* C2 amended: there FindPath(0,5) returns [0,2,4,5], whose total weight is
\* exactly 5.0 and is the minimum; [0,2,3,5] weighs 6.0 and is not optimal.
C2_ReferencePathWeighsFive ==
  ReferenceQuery =>
    /\ result.path = <<0, 2, 4, 5>>
    /\ PathWeight(result.path) = ToFloat(5)
    /\ MinCost(0, 5) = ToFloat(5)
    /\ PathWeight(<<0, 2, 3, 5>>) = ToFloat(6)

C2_Witness ==
  ReferenceQuery /\ result.ran = "find_shortest_path" /\ Len(result.path) = 4

\* C3: when the Manhattan heuristic is admissible for the target (it never
\* exceeds the minimum cost from any router to the target), astar and
\* dijkstra return paths of the same total effective weight.
Admissible(end) ==
  \A u \in Ids : ToFloat(heuristic(u, end)) <= MinCost(u, end)

C3_AstarMatchesDijkstra ==
  (IsQuery /\ result.start \in Ids /\ result.end \in Ids
     /\ Admissible(result.end)) =>
    PathWeight(find_path_astar(result.start, result.end))
      = PathWeight(find_shortest_path(result.start, result.end))

\* C4: under dijkstra, with positive base weights and congestion in
\* [0.5, 2.0], the returned path has the minimum total effective weight
\* from start to end, and so has the distance recorded for end when the
\* loop stops.
PositiveWeights ==
  \A r \in Ids : \A k \in 1..Len(routers[r].connections) :
    routers[r].connections[k][2] > 0

CongestionInRange ==
  \A r \in Ids :
    Unit \div 2 <= routers[r].congestion /\ routers[r].congestion <= 2 * Unit

DijkstraQuery ==
  /\ IsQuery /\ result.ran = "find_shortest_path"
  /\ result.start \in Ids /\ result.end \in Ids
  /\ Reachable(result.start, result.end)
  /\ PositiveWeights /\ CongestionInRange

C4_DijkstraOptimal ==
  DijkstraQuery =>
    /\ IsWalk(result.path, result.start, result.end)
    /\ PathWeight(result.path) = MinCost(result.start, result.end)
    /\ DijkstraFinal(result.start, result.end).distances[result.end]
         = MinCost(result.start, result.end)

\* a query whose optimum is not the route with the fewest links
C4_Witness ==
  /\ DijkstraQuery
  /\ Len(result.path) = 5
  /\ \E r \in Ids : routers[r].congestion # Unit

\* C5: Construct(n) fails whenever a built-in link names a router that is
\* not among the n routers; it never returns a topology without that link.
DanglingLink(n) ==
  \E k \in 1..Len(default_connections) :
    default_connections[k][1] >= n \/ default_connections[k][2] >= n

C5_ConstructRejectsDanglingLinks ==
  (result.op = "construct" /\ DanglingLink(result.n)) =>
    result.error # "none"

\* C6: FindPath returns absent exactly when start or end is unknown or end
\* is unreachable; otherwise the path starts at start, ends at end and
\* every consecutive pair is linked.
C6_AbsentOrWalk ==
  IsQuery =>
    LET unknown == result.start \notin Ids \/ result.end \notin Ids
    IN  /\ (result.path = NoPath) <=>
             (unknown \/ ~Reachable(result.start, result.end))
        /\ result.path # NoPath =>
             IsWalk(result.path, result.start, result.end)

\* a query that is answered with a path of two links
C6_Witness ==
  /\ IsQuery /\ result.ran = "find_path_astar"
  /\ result.start = 2 /\ result.end = 0
  /\ Len(result.path) = 3

\* a query for an unknown router, answered with absent
C6_WitnessAbsent ==
  /\ IsQuery /\ result.start \in Ids /\ result.end \notin Ids
  /\ result.path = NoPath

\* C7: FindPath(x, x) for a valid x returns [x], of total weight 0.
C7_SelfPath ==
  (IsQuery /\ result.start = result.end /\ result.start \in Ids) =>
    /\ result.path = <<result.start>>
    /\ PathWeight(result.path) = 0

\* x has a link to itself and congestion was resampled, astar selected
C7_Witness ==
  /\ IsQuery /\ result.start = 2 /\ result.end = 2
  /\ result.ran = "find_path_astar"
  /\ 2 \in Ids /\ 2 \in Neighbours(2)
  /\ routers[2].congestion # Unit
  /\ result.path = <<2>>

\* C8: no router is ever its own neighbour.
C8_NoSelfLoop ==
  \A r \in Ids : r \notin Neighbours(r)

\* C9: links are symmetric in base weight, the effective weight is the
\* same in both directions for every pair of ids, and an add_connection
\* with an unknown id changes nothing.
BaseSymmetric ==
  \A a \in Ids : \A b \in Neighbours(a) :
    /\ a \in Neighbours(b)
    /\ DictGet(routers[b].connections, a) = DictGet(routers[a].connections, b)

EffectiveSymmetric ==
  \A u \in 0..NumPositions, v \in 0..NumPositions :
    get_effective_weight(u, v) = get_effective_weight(v, u)

C9_Symmetry ==
  [][/\ BaseSymmetric' /\ EffectiveSymmetric'
     /\ (/\ result'.op = "add_connection"
         /\ (result'.router1_id \notin Ids \/ result'.router2_id \notin Ids))
          => routers' = routers]_vars

\* C10: FindPath runs the heuristic search when the last SetAlgorithm name
\* was "astar" and the uniform-cost search for any other name or when none
\* was given; SetAlgorithm changes neither links nor congestion.
C10_Dispatch ==
  [][/\ result'.op = "set_algorithm" =>
          algorithm' = result'.algo /\ routers' = routers
     /\ result'.op = "construct" /\ result'.error = "none" =>
          algorithm' = "dijkstra"
     /\ result'.op \notin {"set_algorithm", "construct"} =>
          algorithm' = algorithm
     /\ result'.op = "find_path" =>
          /\ result'.ran = IF algorithm = "astar" THEN "find_path_astar"
                           ELSE "find_shortest_path"
          /\ result'.path = IF algorithm = "astar"
                            THEN find_path_astar(result'.start, result'.end)
                            ELSE find_shortest_path(result'.start,
                                                    result'.end)]_vars

C10_Witness ==
  /\ IsQuery /\ algorithm = "bfs"
  /\ result.ran = "find_shortest_path"
  /\ result.path # NoPath

====
